---------------------------- MODULE Spec2Model ----------------------------
(***************************************************************************)
(* Fee router: the paginated 24-hour distribution crank.                   *)
(*                                                                         *)
(* State: the Policy and DistributionProgress accounts, the position       *)
(* owner's statistics, the quote treasury balance, the investors' stream   *)
(* accounts and the clock.  Crank is one crank_distribution transaction:   *)
(* the runtime rolls every account back when the handler returns an error, *)
(* so a failed call changes nothing.  Tick advances the clock.             *)
(*                                                                         *)
(* The variables call, transfers, cycle, lastAccepted and claimCount       *)
(* record what the transactions did (parameters and result of the latest   *)
(* call, the transfer_checked calls it issued, the totals of the cycle).   *)
(*                                                                         *)
(* Callers attach the stream accounts of consecutive investors starting at *)
(* page_start, any number of them from 0 to MaxAccounts, possibly with an  *)
(* account that is not a vesting contract in front.  Locked amounts do not *)
(* change while the model runs.  Amounts stay far below 2^64, so the       *)
(* checked additions and multiplications of the code never fail here.      *)
(***************************************************************************)
EXTENDS Integers, Sequences, FiniteSets, TLC

\* ------------------------------------------------------------------ bounds
MaxCycles     == 2      \* cycles that may be started
MaxTicks      == 2      \* clock advances (half a day each)
MaxAccounts   == 3      \* [stream, ata] pairs attached to one call
MaxPageStart  == 2      \* largest page_start a caller passes

\* ------------------------------------------------- constants.rs / progress.rs
SECONDS_PER_DAY      == 86400
BASIS_POINTS_DIVISOR == 10000
MAX_PAGE_SIZE        == 50
MIN_PAYOUT_THRESHOLD == 1000
BITMAP_BYTES         == 256

HalfDay   == SECONDS_PER_DAY \div 2     \* one clock advance
StartTime == SECONDS_PER_DAY            \* Clock value at the first transaction
\* Option<u64>: <<>> is None, <<c>> is Some(c)
None    == <<>>
Some(c) == <<c>>

Min(a, b) == IF a < b THEN a ELSE b

saturating_sub(a, b) == IF a >= b THEN a - b ELSE 0

\* ------------------------------------------------------------ utils/math.rs
\* mutation: the locked fraction is not capped at 100%
calculate_eligible_investor_share_bps_uncapped(locked_total, y0_total_allocation, max_investor_share_bps) ==
    IF y0_total_allocation = 0 THEN 0
    ELSE Min(max_investor_share_bps,
             ((locked_total * BASIS_POINTS_DIVISOR) \div y0_total_allocation) % 65536)

\* The product is taken in u128, where a u64 times 10000 cannot overflow;
\* `as u16` keeps the low 16 bits.
calculate_eligible_investor_share_bps(locked_total, y0_total_allocation, max_investor_share_bps) ==
    IF y0_total_allocation = 0 THEN 0
    ELSE Min(max_investor_share_bps,
             Min((locked_total * BASIS_POINTS_DIVISOR) \div y0_total_allocation,
                 BASIS_POINTS_DIVISOR) % 65536)

calculate_investor_fee_amount(claimed_quote, eligible_investor_share_bps) ==
    (claimed_quote * eligible_investor_share_bps) \div BASIS_POINTS_DIVISOR

calculate_individual_payout(total_investor_fee, individual_locked, total_locked) ==
    IF total_locked = 0 THEN 0
    ELSE (total_investor_fee * individual_locked) \div total_locked

\* <<payout, dust>>
apply_dust_threshold(calculated_amount, min_payout_threshold) ==
    IF calculated_amount >= min_payout_threshold
    THEN <<calculated_amount, 0>>
    ELSE <<0, calculated_amount>>

calculate_creator_remainder(total_claimed, total_investor_distributed, carry_over) ==
    saturating_sub(saturating_sub(total_claimed, total_investor_distributed), carry_over)

check_daily_cap(already_distributed, proposed_distribution, daily_cap) ==
    IF daily_cap # None
    THEN IF already_distributed + proposed_distribution > daily_cap[1]
         THEN saturating_sub(daily_cap[1], already_distributed)
         ELSE proposed_distribution
    ELSE proposed_distribution

\* ---------------------------------------------------------- state/policy.rs
\* mutation: `as u16` is applied to the locked fraction before it is capped
calculate_eligible_investor_share_truncating(pol, locked_total) ==
    IF pol.y0_total_allocation = 0 THEN 0
    ELSE Min(pol.investor_fee_share_bps,
             Min(((locked_total * BASIS_POINTS_DIVISOR) \div pol.y0_total_allocation) % 65536,
                 BASIS_POINTS_DIVISOR))

calculate_eligible_investor_share(pol, locked_total) ==
    IF pol.y0_total_allocation = 0 THEN 0
    ELSE Min(pol.investor_fee_share_bps,
             Min((locked_total * BASIS_POINTS_DIVISOR) \div pol.y0_total_allocation,
                 BASIS_POINTS_DIVISOR))

\* -------------------------------------------------------- state/progress.rs
\* mutation: the window is required of every call
can_distribute_always_gated(p, current_timestamp) ==
    current_timestamp >= p.last_distribution_ts + SECONDS_PER_DAY

\* mutation: the window is never required
can_distribute_never_gated(p, current_timestamp) ==
    TRUE

can_distribute(p, current_timestamp) ==
    IF p.day_completed
    THEN current_timestamp >= p.last_distribution_ts + SECONDS_PER_DAY
    ELSE TRUE

\* mutation: day_completed is left as it was
start_new_day_still_completed(p, current_timestamp, total_claimed, total_locked_all) ==
    [p EXCEPT !.last_distribution_ts = current_timestamp,
              !.current_day_distributed = 0,
              !.current_day_carry_over = 0,
              !.pagination_cursor = 0,
              !.current_day_total_claimed = total_claimed + p.persistent_carry_over,
              !.current_day_total_locked_all = total_locked_all,
              !.persistent_carry_over = 0,
              !.paid_investor_bitmap = {}]

\* mutation: the dust of the previous cycle is rolled in but not cleared
start_new_day_keeps_dust(p, current_timestamp, total_claimed, total_locked_all) ==
    [p EXCEPT !.last_distribution_ts = current_timestamp,
              !.current_day_distributed = 0,
              !.pagination_cursor = 0,
              !.day_completed = FALSE,
              !.current_day_total_claimed = total_claimed + p.persistent_carry_over,
              !.current_day_total_locked_all = total_locked_all,
              !.paid_investor_bitmap = {}]

start_new_day(p, current_timestamp, total_claimed, total_locked_all) ==
    [p EXCEPT !.last_distribution_ts = current_timestamp,
              !.current_day_distributed = 0,
              !.current_day_carry_over = 0,
              !.pagination_cursor = 0,
              !.day_completed = FALSE,
              !.current_day_total_claimed = total_claimed + p.persistent_carry_over,
              !.current_day_total_locked_all = total_locked_all,
              !.persistent_carry_over = 0,
              !.paid_investor_bitmap = {}]

\* mutation: the bitmap and the cursor are left as the last page set them
complete_day_keeps_bitmap(p, creator_amount) ==
    [p EXCEPT !.day_completed = TRUE,
              !.total_distributions = @ + 1,
              !.total_creator_distributed = @ + creator_amount,
              !.persistent_carry_over = p.current_day_carry_over]

\* mutation: the creator's amount is not added to the lifetime total
complete_day_uncounted(p, creator_amount) ==
    [p EXCEPT !.day_completed = TRUE,
              !.total_distributions = @ + 1,
              !.pagination_cursor = 0,
              !.persistent_carry_over = p.current_day_carry_over,
              !.paid_investor_bitmap = {}]

complete_day(p, creator_amount) ==
    [p EXCEPT !.day_completed = TRUE,
              !.total_distributions = @ + 1,
              !.total_creator_distributed = @ + creator_amount,
              !.pagination_cursor = 0,
              !.persistent_carry_over = p.current_day_carry_over,
              !.paid_investor_bitmap = {}]

\* The bitmap is the set of investor indices whose bit is 1.
is_investor_paid(p, investor_index) ==
    IF investor_index \div 8 >= BITMAP_BYTES THEN FALSE
    ELSE investor_index \in p.paid_investor_bitmap

\* mark_investor_paid fails (InvalidPagination) outside the 256 bytes
mark_investor_paid_ok(investor_index) == investor_index \div 8 < BITMAP_BYTES

\* ------------------------------------------------ integrations/streamflow.rs
\* A stream account: head = its first 8 bytes as a little-endian u64 (0 when
\* the account is shorter), sdk = what the Streamflow contract yields as
\* net_amount_deposited - available_to_claim, or -1 when it does not
\* deserialize.
Malformed == [head |-> 0, sdk |-> -1]
Stream(locked) == [head |-> locked, sdk |-> -1]

\* -1 stands for Err(InsufficientStreamflowData)
read_locked_amount_from_stream(stream_account) ==
    IF stream_account.head > 0 THEN stream_account.head
    ELSE stream_account.sdk

\* ------------------------------------------------------------------- state
VARIABLES
    policy,          \* Policy account (written by setup_policy only)
    progress,        \* DistributionProgress account
    position_owner,  \* InvestorFeePositionOwner statistics
    treasury_ata,    \* amount held by the quote treasury token account
    base_treasury_ata, \* amount held by the base treasury token account
    now,             \* Clock::get().unix_timestamp
    call,            \* parameters and result of the latest crank transaction
    transfers,       \* transfer_checked calls issued by the latest transaction
    payout_log,      \* the iterations of the payout loop in the latest transaction
    cycle,           \* what the current (or last closed) cycle received and paid
    lastAccepted,    \* the page accepted immediately before, while the cycle is open
    claimCount,      \* invocations of claim_position_fees_quote_only so far
    streams,         \* the investors' stream accounts, investor 0 first
    pool_fees        \* quote fees the honorary position accrues between two claims

vars == <<policy, progress, position_owner, treasury_ata, base_treasury_ata, now,
          call, transfers, payout_log,
          cycle, lastAccepted, claimCount, streams, pool_fees>>

\* Policies accepted by handle_setup_policy
Policies ==
    { [investor_fee_share_bps |-> 10000, daily_cap_lamports |-> cap,
       min_payout_lamports |-> MIN_PAYOUT_THRESHOLD, y0_total_allocation |-> 100,
       total_investors |-> 3] : cap \in {None, Some(2500)} }

\* mutation: the check of min_payout_lamports is missing
PolicyValid_without_threshold(params) ==
    /\ params.investor_fee_share_bps <= BASIS_POINTS_DIVISOR
    /\ params.y0_total_allocation > 0
    /\ params.total_investors > 0

PolicyValid(params) ==
    /\ params.investor_fee_share_bps <= BASIS_POINTS_DIVISOR
    /\ params.y0_total_allocation > 0
    /\ params.min_payout_lamports >= MIN_PAYOUT_THRESHOLD
    /\ params.total_investors > 0

\* The vesting contracts of the policy's investors
InvestorStreams ==
    { <<Stream(9), Stream(9), Stream(82)>>, <<Stream(82), Stream(9), Stream(9)>> }

InitialProgress ==
    [last_distribution_ts |-> 0,
     current_day_distributed |-> 0,
     current_day_carry_over |-> 0,
     pagination_cursor |-> 0,
     day_completed |-> TRUE,
     current_day_total_claimed |-> 0,
     total_distributions |-> 0,
     total_investor_distributed |-> 0,
     total_creator_distributed |-> 0,
     current_day_total_locked_all |-> 0,
     persistent_carry_over |-> 0,
     paid_investor_bitmap |-> {}]

InvestorIdx == 0 .. (MaxPageStart + MaxAccounts)

NoCycle ==
    [available |-> 0, investor_paid |-> 0, creator_paid |-> 0,
     received |-> [i \in InvestorIdx |-> 0],
     amount |-> [i \in InvestorIdx |-> 0]]

NoCall == [page_start |-> 0, page_size |-> 0, result |-> "None", claim |-> None,
           undone |-> [started |-> FALSE, transfers |-> 0]]

Init ==
    /\ policy \in {pol \in Policies : PolicyValid(pol)}
    /\ progress = InitialProgress
    /\ position_owner = [total_fees_claimed |-> 0]
    /\ treasury_ata = 0
    /\ base_treasury_ata = 0
    /\ now = StartTime
    /\ call = NoCall
    /\ transfers = <<>>
    /\ payout_log = <<>>
    /\ cycle = NoCycle
    /\ lastAccepted = <<>>
    /\ claimCount = 0
    /\ streams \in InvestorStreams
    /\ pool_fees = 10000

\* ------------------------------------- instructions/crank_distribution.rs
\* mutation: the first page is recognised by page_start alone
is_first_page_any(p, page_start) ==
    page_start = 0

is_first_page(p, page_start) ==
    \/ (page_start = 0 /\ p.day_completed)
    \/ (page_start = 0 /\ p.pagination_cursor = 0)

previous_page_start(p, page_size) ==
    IF p.pagination_cursor >= page_size
    THEN p.pagination_cursor - page_size
    ELSE 0

\* mutation: the comparison with the cursor is reversed
is_retry_previous_page_reversed(p, page_start, page_size) ==
    /\ ~p.day_completed
    /\ page_start = previous_page_start(p, page_size)
    /\ page_start > p.pagination_cursor

is_retry_previous_page(p, page_start, page_size) ==
    /\ ~p.day_completed
    /\ page_start = previous_page_start(p, page_size)
    /\ page_start < p.pagination_cursor

\* mutation: a page_start other than the cursor is let through
PageGuard_unsequenced(p, page_start, page_size, current_time) ==
    IF ~(page_size > 0 /\ page_size <= MAX_PAGE_SIZE) THEN "InvalidPagination"
    ELSE IF ~can_distribute(p, current_time) THEN "CrankWindowNotReached"
    ELSE IF is_retry_previous_page(p, page_start, page_size) THEN "NoOp"
    ELSE "Proceed"

\* The checks made before anything is read or written: the error returned,
\* "NoOp" for the early return Ok(()), or "Proceed".
PageGuard(p, page_start, page_size, current_time) ==
    IF ~(page_size > 0 /\ page_size <= MAX_PAGE_SIZE) THEN "InvalidPagination"
    ELSE IF ~can_distribute(p, current_time) THEN "CrankWindowNotReached"
    ELSE IF is_retry_previous_page(p, page_start, page_size) THEN "NoOp"
    ELSE IF ~is_first_page(p, page_start) /\ page_start # p.pagination_cursor
         THEN "InvalidPaginationSequence"
    ELSE "Proceed"

RECURSIVE SumSeq(_)
SumSeq(s) == IF s = <<>> THEN 0 ELSE s[1] + SumSeq(Tail(s))

InvestorTransfer(index, amount) == [kind |-> "investor", index |-> index, amount |-> amount]
CreatorTransfer(amount) == [kind |-> "creator", index |-> 0, amount |-> amount]

\* transfer_checked out of treasury_ata: the token program refuses a frozen
\* destination account and an amount above the balance, which aborts the
\* transaction.
TransferChecked(acc, xfer) ==
    IF xfer.kind = "investor" /\ xfer.index \in acc.frozen
    THEN [acc EXCEPT !.err = "AccountFrozen"]
    ELSE IF xfer.amount > acc.treasury
    THEN [acc EXCEPT !.err = "InsufficientFunds"]
    ELSE [acc EXCEPT !.treasury = @ - xfer.amount,
                     !.xfers = Append(@, xfer)]

\* mutation: the bitmap is not consulted
PayoutOutcome_unguarded(acc, index, final_payout, dust, allowed_payout, paid, entry) ==
    IF final_payout > 0
    THEN IF allowed_payout > 0
         THEN IF paid.err # "" THEN paid
              ELSE IF ~mark_investor_paid_ok(index)
              THEN [acc EXCEPT !.err = "InvalidPagination"]
              ELSE [paid EXCEPT
                      !.p.current_day_distributed = @ + allowed_payout,
                      !.p.paid_investor_bitmap = @ \cup {index},
                      !.page_distributed = @ + allowed_payout,
                      !.page_dust = @ + saturating_sub(final_payout, allowed_payout),
                      !.log = Append(@, entry)]
         ELSE [acc EXCEPT
                 !.page_dust = @ + saturating_sub(final_payout, allowed_payout),
                 !.log = Append(@, entry)]
    ELSE [acc EXCEPT !.page_dust = @ + dust, !.log = Append(@, entry)]

\* The outcome of one iteration of the payout loop once its amounts are
\* known: entry is what the iteration computed, paid the accumulator after
\* the transfer of allowed_payout.
PayoutOutcome(acc, index, final_payout, dust, allowed_payout, paid, entry) ==
    IF is_investor_paid(acc.p, index)
    THEN [acc EXCEPT !.err = "InvestorAlreadyPaid"]
    ELSE IF final_payout > 0
    THEN IF allowed_payout > 0
         THEN IF paid.err # "" THEN paid
              ELSE IF ~mark_investor_paid_ok(index)
              THEN [acc EXCEPT !.err = "InvalidPagination"]
              ELSE [paid EXCEPT
                      !.p.current_day_distributed = @ + allowed_payout,
                      !.p.paid_investor_bitmap = @ \cup {index},
                      !.page_distributed = @ + allowed_payout,
                      !.page_dust = @ + saturating_sub(final_payout, allowed_payout),
                      !.log = Append(@, entry)]
         ELSE [acc EXCEPT
                 !.page_dust = @ + saturating_sub(final_payout, allowed_payout),
                 !.log = Append(@, entry)]
    ELSE [acc EXCEPT !.page_dust = @ + dust, !.log = Append(@, entry)]

\* The iteration from the cap check on (lines 390-439).
PayoutCapped(acc, index, individual_payout, final_payout, dust, allowed_payout) ==
    PayoutOutcome(acc, index, final_payout, dust, allowed_payout,
        TransferChecked(acc, InvestorTransfer(index, allowed_payout)),
        [index |-> index,
         raw_payout |-> individual_payout,
         allowed_payout |-> allowed_payout,
         distributed_before |-> acc.p.current_day_distributed,
         distributed_after |-> acc.p.current_day_distributed + allowed_payout,
         dust_before |-> acc.page_dust,
         dust_after |-> acc.page_dust
                           + (IF final_payout > 0
                              THEN saturating_sub(final_payout, allowed_payout)
                              ELSE dust)])

\* The iteration from the threshold on (lines 385-388); thr is the pair
\* apply_dust_threshold returned.
PayoutThresholded(acc, pol, index, individual_payout, thr) ==
    PayoutCapped(acc, index, individual_payout, thr[1], thr[2],
        check_daily_cap(acc.p.current_day_distributed, thr[1], pol.daily_cap_lamports))

\* The iteration for an investor whose raw payout is known (lines 378-388).
PayoutOf(acc, pol, index, individual_payout) ==
    PayoutThresholded(acc, pol, index, individual_payout,
        apply_dust_threshold(individual_payout, pol.min_payout_lamports))

\* One iteration of the payout loop (lines 362-440) for the investor at
\* position idx (1-based) of individual_locked.
PayoutStep(acc, pol, page_start, locked_amount, idx, total_investor_fee, total_locked) ==
    PayoutOf(acc, pol, page_start + (idx - 1),
        calculate_individual_payout(total_investor_fee, locked_amount, total_locked))

RECURSIVE PayoutLoop(_, _, _, _, _, _, _)
PayoutLoop(acc, pol, page_start, individual_locked, idx, total_investor_fee, total_locked) ==
    IF idx > Len(individual_locked) \/ acc.err # "" THEN acc
    ELSE PayoutLoop(
            PayoutStep(acc, pol, page_start, individual_locked[idx], idx,
                       total_investor_fee, total_locked),
            pol, page_start, individual_locked, idx + 1, total_investor_fee, total_locked)

\* One iteration of the carried-dust loop (lines 451-494).
DustStep(acc, page_start, locked_amount, idx, carry_over_distributed, page_locked) ==
    LET investor_dust_share == (carry_over_distributed * locked_amount) \div page_locked
        paid == TransferChecked(acc, InvestorTransfer(page_start + (idx - 1), investor_dust_share))
    IN  IF investor_dust_share > 0
        THEN IF paid.err # "" THEN paid
             ELSE [paid EXCEPT
                     !.p.current_day_distributed = @ + investor_dust_share,
                     !.page_distributed = @ + investor_dust_share]
        ELSE acc

RECURSIVE DustLoop(_, _, _, _, _, _)
DustLoop(acc, page_start, individual_locked, idx, carry_over_distributed, page_locked) ==
    IF idx > Len(individual_locked) \/ acc.err # "" \/ page_locked = 0 THEN acc
    ELSE DustLoop(
            DustStep(acc, page_start, individual_locked[idx], idx,
                     carry_over_distributed, page_locked),
            page_start, individual_locked, idx + 1, carry_over_distributed, page_locked)

\* What the Fee Claim Gateway can deliver on a claim: the quote amount that
\* arrives in treasury_ata and the amount that arrives in base_treasury_ata.
ClaimedAmounts == {pool_fees}
GatewayOutcomes ==
    { [quote |-> q, base |-> 0] : q \in ClaimedAmounts } \cup { [quote |-> 0, base |-> 1] }

\* What can be wrong with the first investor of the accounts attached to a
\* call: its stream account is not a vesting contract, or its token account
\* is frozen.
AccountFaults == {"none", "stream", "ata"}

\* mutation: the base treasury balance is not compared
claim_position_fees_unchecked(treasury_before, base_treasury_before, gw) ==
    LET treasury_after == treasury_before + gw.quote
        base_treasury_after == base_treasury_before + gw.base
    IN  [err |-> IF treasury_after < treasury_before THEN "MathOverflow" ELSE "",
         quote_claimed |-> treasury_after - treasury_before,
         treasury_after |-> treasury_after,
         base_treasury_after |-> base_treasury_after]

\* claim_position_fees_quote_only: the balances are read before and after
\* the CPI, in which the gateway deposits gw.
claim_position_fees_quote_only(treasury_before, base_treasury_before, gw) ==
    LET treasury_after == treasury_before + gw.quote
        base_treasury_after == base_treasury_before + gw.base
    IN  [err |-> IF base_treasury_before # base_treasury_after THEN "BaseFeesDetected"
                 ELSE IF treasury_after < treasury_before THEN "MathOverflow"
                 ELSE "",
         quote_claimed |-> treasury_after - treasury_before,
         treasury_after |-> treasury_after,
         base_treasury_after |-> base_treasury_after]

\* The remaining accounts of a call: the stream accounts of n consecutive
\* investors from page_start on (all investors on the first page of a cycle,
\* the page's investors later), the first one replaced by an account that
\* is not a vesting contract when bad.
RemainingAccounts(page_start, n, bad) ==
    LET last == Min(page_start + n, Len(streams))
        slice == IF page_start + 1 > last THEN <<>>
                 ELSE SubSeq(streams, page_start + 1, last)
    IN  IF bad /\ slice # <<>> THEN <<Malformed>> \o Tail(slice) ELSE slice

\* What a failing transaction had done when the error was raised, and what
\* the runtime therefore reverts: the fee claim (the gateway's deposits), the
\* writes of start_new_day, and the transfers issued so far.
NothingUndone == [started |-> FALSE, transfers |-> 0]

Aborted(err) ==
    [result |-> err, xfers |-> <<>>, claim |-> None, undone |-> NothingUndone]

\* claim is what the gateway had delivered, None when no claim had been made
AbortedAfter(err, claim, started, xfers) ==
    [result |-> err, xfers |-> <<>>, claim |-> claim,
     undone |-> [started |-> started, transfers |-> Len(xfers)]]

\* The first-page block (lines 206-279): the locked amounts of the attached
\* accounts are summed, fees are claimed and start_new_day is applied.
FirstPageBlock(p0, treasury0, base_treasury0, current_time, starting, gw, reads, fee_claim) ==
    [starting |-> starting,
     reads |-> reads,
     oracle_failed |-> \E i \in 1 .. Len(reads) : reads[i] = -1,
     claim_err |-> IF starting THEN fee_claim.err ELSE "",
     made_claim |-> IF starting THEN Some(gw) ELSE None,
     claimed |-> fee_claim.quote_claimed,
     p |-> IF starting
           THEN start_new_day(p0, current_time, fee_claim.quote_claimed, SumSeq(reads))
           ELSE p0,
     treasury |-> IF starting THEN fee_claim.treasury_after ELSE treasury0,
     base_treasury |-> IF starting THEN fee_claim.base_treasury_after
                       ELSE base_treasury0,
     claimed_quote |-> IF starting THEN fee_claim.quote_claimed
                       ELSE p0.current_day_total_claimed]

\* Which investors the page processes and whether it is final (lines 283-324).
PageExtent(first, pol, page_start, page_size, investors_to_process) ==
    [investors_to_process |-> investors_to_process,
     is_final_page |-> \/ investors_to_process < page_size
                       \/ page_start + investors_to_process >= pol.total_investors,
     individual_locked |-> SubSeq(first.reads, 1, investors_to_process),
     page_locked |-> SumSeq(SubSeq(first.reads, 1, investors_to_process))]

\* The amounts of the page (lines 326-359).
PageAmounts(first, pol, ext) ==
    [total_locked_all_investors |-> first.p.current_day_total_locked_all,
     total_investor_fee |->
        calculate_investor_fee_amount(first.claimed_quote,
            calculate_eligible_investor_share(pol, first.p.current_day_total_locked_all)),
     carry_over_from_previous_pages |-> first.p.current_day_carry_over,
     carry_over_distributed |->
        IF /\ first.p.current_day_carry_over >= pol.min_payout_lamports
           /\ first.p.current_day_total_locked_all > 0
        THEN (first.p.current_day_carry_over * ext.page_locked)
                 \div first.p.current_day_total_locked_all
        ELSE 0]

\* The carried-dust block (lines 447-503) after the payout loop left acc1.
DustBlock(acc1, page_start, ext, amt) ==
    IF acc1.err # "" THEN acc1
    ELSE IF amt.carry_over_distributed > 0
    THEN [DustLoop(acc1, page_start, ext.individual_locked, 1,
                   amt.carry_over_distributed, ext.page_locked)
            EXCEPT !.page_dust = @ +
                saturating_sub(amt.carry_over_from_previous_pages,
                               amt.carry_over_distributed)]
    ELSE [acc1 EXCEPT !.page_dust = @ + amt.carry_over_from_previous_pages]

\* mutation: the page's payouts are taken off the claimed total
PageBooked_deducts(acc2, page_start, page_size) ==
    [acc2.p EXCEPT !.current_day_carry_over = acc2.page_dust,
                   !.pagination_cursor = page_start + page_size,
                   !.total_investor_distributed = @ + acc2.page_distributed,
                   !.current_day_total_claimed = @ - acc2.page_distributed]

\* Progress after the page's bookkeeping (lines 506-508).
PageBooked(acc2, page_start, page_size) ==
    [acc2.p EXCEPT !.current_day_carry_over = acc2.page_dust,
                   !.pagination_cursor = page_start + page_size,
                   !.total_investor_distributed = @ + acc2.page_distributed]

\* The final-page block (lines 512-556) and what the transaction leaves.
PageClosed(first, ext, acc2, p3, remainder, acc3) ==
    IF acc2.err # ""
    THEN AbortedAfter(acc2.err, first.made_claim, first.starting, acc2.xfers)
    ELSE IF acc3.err # ""
    THEN AbortedAfter(acc3.err, first.made_claim, first.starting, acc3.xfers)
    ELSE [result |-> "Accepted", xfers |-> acc3.xfers,
          p |-> IF ext.is_final_page THEN complete_day(p3, remainder) ELSE p3,
          treasury |-> acc3.treasury, base_treasury |-> first.base_treasury,
          log |-> acc3.log,
          claim |-> first.made_claim,
          started |-> first.starting, closed |-> ext.is_final_page,
          claimed |-> first.claimed]

PageRemainder(first, ext, acc2, p3, remainder) ==
    PageClosed(first, ext, acc2, p3, remainder,
        IF ext.is_final_page /\ remainder > 0
        THEN TransferChecked(acc2, CreatorTransfer(remainder))
        ELSE acc2)

PageFinish(first, ext, acc2, p3) ==
    PageRemainder(first, ext, acc2, p3,
        calculate_creator_remainder(first.claimed_quote, p3.current_day_distributed,
                                    p3.current_day_carry_over))

PageAfterDust(first, ext, acc2, page_start, page_size) ==
    PageFinish(first, ext, acc2, PageBooked(acc2, page_start, page_size))

\* The payout loop (lines 362-440) followed by the blocks above.
PagePayouts(first, pol, page_start, page_size, frozen, ext, amt) ==
    PageAfterDust(first, ext,
        DustBlock(
            PayoutLoop([err |-> "", p |-> [first.p EXCEPT !.current_day_carry_over = 0],
                        page_distributed |-> 0, page_dust |-> 0,
                        xfers |-> <<>>, treasury |-> first.treasury,
                        frozen |-> frozen, log |-> <<>>],
                       pol, page_start, ext.individual_locked, 1,
                       amt.total_investor_fee, amt.total_locked_all_investors),
            page_start, ext, amt),
        page_start, page_size)

PageWithExtent(first, pol, page_start, page_size, frozen, ext) ==
    PagePayouts(first, pol, page_start, page_size, frozen, ext,
                PageAmounts(first, pol, ext))

\* The handler from line 281 on, after the first-page block.
PageAfterClaim(first, pol, page_start, page_size, accounts, frozen) ==
    IF first.oracle_failed
    THEN Aborted("InsufficientStreamflowData")
    ELSE IF first.claim_err # ""
    THEN AbortedAfter(first.claim_err, first.made_claim, FALSE, <<>>)
    ELSE PageWithExtent(first, pol, page_start, page_size, frozen,
            PageExtent(first, pol, page_start, page_size,
                IF first.starting THEN Min(page_size, Len(accounts))
                ELSE Len(accounts)))

\* The handler from line 204 on, for a call that passed PageGuard.  The
\* result is either an aborted transaction or the accounts as the
\* transaction leaves them together with the transfers it issued.
ExecutePage(p0, pol, treasury0, base_treasury0, current_time, page_start, page_size, accounts, frozen, gw) ==
    PageAfterClaim(
        FirstPageBlock(p0, treasury0, base_treasury0, current_time,
            is_first_page(p0, page_start) /\ p0.day_completed, gw,
            [i \in 1 .. Len(accounts) |-> read_locked_amount_from_stream(accounts[i])],
            claim_position_fees_quote_only(treasury0, base_treasury0, gw)),
        pol, page_start, page_size, accounts, frozen)

PageStarts == 0 .. MaxPageStart
PageSizes  == {0, 1, 2, MAX_PAGE_SIZE, MAX_PAGE_SIZE + 1}

RECURSIVE Credit(_, _)
\* received, with every investor transfer of xfers counted
Credit(received, xfers) ==
    IF xfers = <<>> THEN received
    ELSE LET x == xfers[1]
         IN  Credit(IF x.kind = "investor"
                    THEN [received EXCEPT ![x.index] = @ + 1]
                    ELSE received,
                    Tail(xfers))

RECURSIVE CreditAmount(_, _)
\* amount, with every investor transfer of xfers added
CreditAmount(amount, xfers) ==
    IF xfers = <<>> THEN amount
    ELSE LET x == xfers[1]
         IN  CreditAmount(IF x.kind = "investor"
                          THEN [amount EXCEPT ![x.index] = @ + x.amount]
                          ELSE amount,
                          Tail(xfers))

RECURSIVE PaidTo(_, _)
\* the sum of the amounts of the transfers of the given kind
PaidTo(kind, xfers) ==
    IF xfers = <<>> THEN 0
    ELSE (IF xfers[1].kind = kind THEN xfers[1].amount ELSE 0) + PaidTo(kind, Tail(xfers))

\* mutation: the writes of start_new_day survive the failure
CrankReturns_keeps_writes(page_start, page_size, result, claim, undone) ==
    /\ call' = [page_start |-> page_start, page_size |-> page_size, result |-> result,
                claim |-> claim, undone |-> undone]
    /\ transfers' = <<>>
    /\ payout_log' = <<>>
    /\ progress' = IF undone.started
                   THEN [progress EXCEPT !.day_completed = FALSE]
                   ELSE progress
    /\ UNCHANGED <<policy, position_owner, treasury_ata, base_treasury_ata, now, cycle,
                   lastAccepted, claimCount, streams, pool_fees>>

\* A transaction that fails, or returns early: accounts are left as they were.
CrankReturns(page_start, page_size, result, claim, undone) ==
    /\ call' = [page_start |-> page_start, page_size |-> page_size, result |-> result,
                claim |-> claim, undone |-> undone]
    /\ transfers' = <<>>
    /\ payout_log' = <<>>
    /\ UNCHANGED <<policy, progress, position_owner, treasury_ata, base_treasury_ata,
                   now, cycle,
                   lastAccepted, claimCount, streams, pool_fees>>

CrankCommits(page_start, page_size, out) ==
    /\ call' = [page_start |-> page_start, page_size |-> page_size, result |-> "Accepted",
                claim |-> out.claim, undone |-> NothingUndone]
    /\ base_treasury_ata' = out.base_treasury
    /\ transfers' = out.xfers
    /\ payout_log' = out.log
    /\ progress' = out.p
    /\ treasury_ata' = out.treasury
    /\ position_owner' =
          IF out.started
          THEN [position_owner EXCEPT !.total_fees_claimed = @ + out.claimed]
          ELSE position_owner
    /\ claimCount' = IF out.started THEN claimCount + 1 ELSE claimCount
    /\ cycle' =
          LET c == IF out.started
                   THEN [NoCycle EXCEPT
                           !.available = out.claimed + progress.persistent_carry_over]
                   ELSE cycle
          IN  [c EXCEPT !.investor_paid = @ + PaidTo("investor", out.xfers),
                        !.creator_paid = @ + PaidTo("creator", out.xfers),
                        !.received = Credit(@, out.xfers),
                        !.amount = CreditAmount(@, out.xfers)]
    /\ lastAccepted' =
          IF out.closed THEN <<>>
          ELSE << [page_start |-> page_start, page_size |-> page_size] >>
    /\ UNCHANGED <<policy, now, streams, pool_fees>>

\* The transaction ends with the outcome of the page.
CrankEnds(page_start, page_size, out) ==
    IF out.result # "Accepted"
    THEN CrankReturns(page_start, page_size, out.result, out.claim, out.undone)
    ELSE CrankCommits(page_start, page_size, out)

\* handle_crank_distribution, one transaction
Crank ==
    \E page_start \in PageStarts, page_size \in PageSizes :
        LET g == PageGuard(progress, page_start, page_size, now)
        IN  IF g # "Proceed"
            THEN CrankReturns(page_start, page_size, g, None, NothingUndone)
            ELSE /\ progress.day_completed => progress.total_distributions < MaxCycles
                 /\ \E n \in 0 .. MaxAccounts, fault \in AccountFaults,
                       gw \in (IF progress.day_completed THEN GatewayOutcomes
                               ELSE { [quote |-> 0, base |-> 0] }) :
                        CrankEnds(page_start, page_size,
                            ExecutePage(progress, policy, treasury_ata,
                                        base_treasury_ata, now, page_start, page_size,
                                        RemainingAccounts(page_start, n, fault = "stream"),
                                        IF fault = "ata" THEN {page_start} ELSE {},
                                        gw))

\* The clock advances between transactions.
Tick ==
    /\ now < StartTime + MaxTicks * HalfDay
    /\ now' = now + HalfDay
    /\ call' = NoCall
    /\ transfers' = <<>>
    /\ payout_log' = <<>>
    /\ UNCHANGED <<policy, progress, position_owner, treasury_ata, base_treasury_ata,
                   cycle, lastAccepted, claimCount, streams, pool_fees>>

Next == Crank \/ Tick

Spec == Init /\ [][Next]_vars

\* --------------------------------------------- instructions/setup_policy.rs
\* An account that has not been created
NoAccount == [discriminator |-> "none"]

\* PolicyParams a caller can pass to setup_policy
SetupParams ==
    [investor_fee_share_bps : {BASIS_POINTS_DIVISOR, BASIS_POINTS_DIVISOR + 1},
     daily_cap_lamports : {None, Some(2500)},
     min_payout_lamports : {MIN_PAYOUT_THRESHOLD - 1, MIN_PAYOUT_THRESHOLD},
     y0_total_allocation : {0, 100},
     total_investors : {0, 3}]

SetupReturns(result) ==
    /\ call' = [NoCall EXCEPT !.result = result]
    /\ transfers' = <<>>
    /\ payout_log' = <<>>
    /\ UNCHANGED <<policy, progress, position_owner, treasury_ata, base_treasury_ata,
                   now, cycle, lastAccepted, claimCount, streams, pool_fees>>

\* handle_setup_policy, one transaction; init refuses accounts that exist
setup_policy ==
    \E params \in SetupParams :
        IF policy # NoAccount \/ progress # NoAccount
        THEN SetupReturns("AccountAlreadyInUse")
        ELSE IF ~PolicyValid(params)
        THEN SetupReturns("InvalidPoolConfiguration")
        ELSE /\ policy' = [investor_fee_share_bps |-> params.investor_fee_share_bps,
                           daily_cap_lamports |-> params.daily_cap_lamports,
                           min_payout_lamports |-> params.min_payout_lamports,
                           y0_total_allocation |-> params.y0_total_allocation,
                           total_investors |-> params.total_investors]
             /\ progress' = InitialProgress
             /\ call' = [NoCall EXCEPT !.result = "SetupOk"]
             /\ transfers' = <<>>
             /\ payout_log' = <<>>
             /\ UNCHANGED <<position_owner, treasury_ata, base_treasury_ata, now, cycle,
                            lastAccepted, claimCount, streams, pool_fees>>

\* Before setup neither account exists; the crank needs both.
InitSetup ==
    /\ policy = NoAccount
    /\ progress = NoAccount
    /\ position_owner = [total_fees_claimed |-> 0]
    /\ treasury_ata = 0
    /\ base_treasury_ata = 0
    /\ now = StartTime
    /\ call = NoCall
    /\ transfers = <<>>
    /\ payout_log = <<>>
    /\ cycle = NoCycle
    /\ lastAccepted = <<>>
    /\ claimCount = 0
    /\ streams \in InvestorStreams
    /\ pool_fees = 10000

CrankAfterSetup ==
    /\ policy # NoAccount
    /\ progress # NoAccount
    /\ Crank

NextSetup == setup_policy \/ CrankAfterSetup \/ Tick

SpecSetup == InitSetup /\ [][NextSetup]_vars

\* ------------------------------------------ the pro-rata scenarios (A, B)
\* Uncapped policies with a 3000 bps investor share: one investor with 100
\* locked of y0 = 100, and two investors with 60 and 40 locked of y0 = 200.
ScenarioPolicy(y0, n) ==
    [investor_fee_share_bps |-> 3000, daily_cap_lamports |-> None,
     min_payout_lamports |-> MIN_PAYOUT_THRESHOLD, y0_total_allocation |-> y0,
     total_investors |-> n]

Scenarios ==
    { [policy |-> ScenarioPolicy(100, 1), streams |-> <<Stream(100)>>],
      [policy |-> ScenarioPolicy(200, 2), streams |-> <<Stream(60), Stream(40)>>] }

InitProRata ==
    /\ \E s \in {x \in Scenarios : PolicyValid(x.policy)} :
           policy = s.policy /\ streams = s.streams
    /\ pool_fees \in {1000, 10000}
    /\ progress = InitialProgress
    /\ position_owner = [total_fees_claimed |-> 0]
    /\ treasury_ata = 0
    /\ base_treasury_ata = 0
    /\ now = StartTime
    /\ call = NoCall
    /\ transfers = <<>>
    /\ payout_log = <<>>
    /\ cycle = NoCycle
    /\ lastAccepted = <<>>
    /\ claimCount = 0

SpecProRata == InitProRata /\ [][Next]_vars

\* ------------------------------------------------ four investors, resumed
\* A policy with four investors and no cap.  StartCycle and SubmitPage are
\* the calls of a caller that follows the protocol: the first page with the
\* accounts of all investors, then the page that starts at
\* pagination_cursor with the accounts of the investors of that page and
\* nothing else.  Crank is any caller.
ResumePolicy ==
    [investor_fee_share_bps |-> BASIS_POINTS_DIVISOR, daily_cap_lamports |-> None,
     min_payout_lamports |-> MIN_PAYOUT_THRESHOLD, y0_total_allocation |-> 100,
     total_investors |-> 4]

ResumeStreams == { <<Stream(9), Stream(9), Stream(41), Stream(40)>> }

InitResume ==
    /\ policy \in {pol \in {ResumePolicy} : PolicyValid(pol)}
    /\ streams \in ResumeStreams
    /\ pool_fees = 10000
    /\ progress = InitialProgress
    /\ position_owner = [total_fees_claimed |-> 0]
    /\ treasury_ata = 0
    /\ base_treasury_ata = 0
    /\ now = StartTime
    /\ call = NoCall
    /\ transfers = <<>>
    /\ payout_log = <<>>
    /\ cycle = NoCycle
    /\ lastAccepted = <<>>
    /\ claimCount = 0

\* The outcome of the page (pagination_cursor, page_size) submitted with the
\* accounts of its investors, none of them faulty.
PageAtCursor(page_size) ==
    ExecutePage(progress, policy, treasury_ata, base_treasury_ata, now,
                progress.pagination_cursor, page_size,
                RemainingAccounts(progress.pagination_cursor, page_size, FALSE),
                {}, [quote |-> 0, base |-> 0])

ResumeSizes == {page_size \in PageSizes : page_size > 0 /\ page_size <= MAX_PAGE_SIZE}

\* handle_crank_distribution, called to resume the open cycle
SubmitPage ==
    /\ ~progress.day_completed
    /\ \E page_size \in ResumeSizes :
          IF PageGuard(progress, progress.pagination_cursor, page_size, now) # "Proceed"
          THEN CrankReturns(progress.pagination_cursor, page_size,
                            PageGuard(progress, progress.pagination_cursor, page_size, now),
                            None, NothingUndone)
          ELSE CrankEnds(progress.pagination_cursor, page_size, PageAtCursor(page_size))

\* handle_crank_distribution, called to start a cycle with the accounts of
\* all the policy's investors attached
StartCycle ==
    /\ progress.day_completed
    /\ progress.total_distributions < MaxCycles
    /\ \E page_size \in ResumeSizes, gw \in GatewayOutcomes :
          IF PageGuard(progress, 0, page_size, now) # "Proceed"
          THEN CrankReturns(0, page_size, PageGuard(progress, 0, page_size, now),
                            None, NothingUndone)
          ELSE CrankEnds(0, page_size,
                   ExecutePage(progress, policy, treasury_ata, base_treasury_ata, now,
                               0, page_size, streams, {}, gw))

NextResume == StartCycle \/ SubmitPage \/ Crank \/ Tick

\* Callers keep resuming the open cycle.  SubmitPage is enabled exactly
\* while the cycle is open (two page sizes never leave the same call
\* record), so the condition is WF_vars(SubmitPage) written out.
ResumeFairness == []<>(progress.day_completed) \/ []<><<SubmitPage>>_vars

SpecResume == InitResume /\ [][NextResume]_vars /\ ResumeFairness

\* ------------------------------------------- the eligible share, by itself
\* calculate_eligible_investor_share_bps and Policy's method of the same
\* purpose, applied to arguments around 0%, the configured share and 100%.
LockedTotals == {0, 1, 1999, 2000, 5000, 9999, 10000, 10001, 20000, 200000}
Allocations  == {0, 1, 3, 7000, 10000}
MaxShares    == {0, 1, 3000, BASIS_POINTS_DIVISOR, 65535}

InitShare ==
    /\ call \in [locked_total : LockedTotals, y0_total_allocation : Allocations,
                 max_investor_share_bps : MaxShares, result : {"None"},
                 share_bps : {0}, policy_share : {0}]
    /\ policy \in {pol \in Policies : PolicyValid(pol)}
    /\ progress = InitialProgress
    /\ position_owner = [total_fees_claimed |-> 0]
    /\ treasury_ata = 0
    /\ base_treasury_ata = 0
    /\ now = StartTime
    /\ transfers = <<>>
    /\ payout_log = <<>>
    /\ cycle = NoCycle
    /\ lastAccepted = <<>>
    /\ claimCount = 0
    /\ streams \in InvestorStreams
    /\ pool_fees = 10000

\* Both functions are applied to the arguments held in call.
EligibleShare ==
    /\ call.result = "None"
    /\ call' = [call EXCEPT
          !.result = "EligibleShare",
          !.share_bps =
              calculate_eligible_investor_share_bps(
                  call.locked_total, call.y0_total_allocation,
                  call.max_investor_share_bps),
          !.policy_share =
              calculate_eligible_investor_share(
                  [policy EXCEPT !.y0_total_allocation = call.y0_total_allocation,
                                 !.investor_fee_share_bps = call.max_investor_share_bps],
                  call.locked_total)]
    /\ UNCHANGED <<policy, progress, position_owner, treasury_ata, base_treasury_ata,
                   now, transfers, payout_log, cycle, lastAccepted, claimCount,
                   streams, pool_fees>>

SpecShare == InitShare /\ [][EligibleShare]_vars

\* --------------------------------------------- beyond the bitmap's last bit
\* A policy with more investors than paid_investor_bitmap has bits
\* (setup_policy puts no ceiling on total_investors).  Investor 0 holds half
\* of the allocation; the investors around the last bit hold small amounts,
\* all others are fully vested.
BitmapBits == BITMAP_BYTES * 8

LargePolicy ==
    [investor_fee_share_bps |-> BASIS_POINTS_DIVISOR, daily_cap_lamports |-> None,
     min_payout_lamports |-> MIN_PAYOUT_THRESHOLD, y0_total_allocation |-> 100,
     total_investors |-> BitmapBits + 2]

\* a vesting contract with nothing locked any more
Vested == [head |-> 0, sdk |-> 0]

LargeStreams ==
    [i \in 1 .. (BitmapBits + 2) |->
        IF i = 1 THEN Stream(50)
        ELSE IF i \in {BitmapBits - 1, BitmapBits} THEN Stream(7)
        ELSE IF i = BitmapBits + 1 THEN Stream(5)
        ELSE IF i = BitmapBits + 2 THEN Stream(20)
        ELSE Vested]

InitLarge ==
    /\ policy \in {pol \in {LargePolicy} : PolicyValid(pol)}
    /\ progress = InitialProgress
    /\ position_owner = [total_fees_claimed |-> 0]
    /\ treasury_ata = 0
    /\ base_treasury_ata = 0
    /\ now = StartTime
    /\ call = NoCall
    /\ transfers = <<>>
    /\ payout_log = <<>>
    /\ cycle = NoCycle
    /\ lastAccepted = <<>>
    /\ claimCount = 0
    /\ streams = LargeStreams
    /\ pool_fees = 10000

\* The first page of a cycle with as many stream accounts as a page can take.
StartLargeCycle ==
    /\ progress.day_completed
    /\ progress.total_distributions < MaxCycles
    /\ \E page_size \in ResumeSizes, gw \in GatewayOutcomes :
          IF PageGuard(progress, 0, page_size, now) # "Proceed"
          THEN CrankReturns(0, page_size, PageGuard(progress, 0, page_size, now),
                            None, NothingUndone)
          ELSE CrankEnds(0, page_size,
                   ExecutePage(progress, policy, treasury_ata, base_treasury_ata, now,
                               0, page_size,
                               RemainingAccounts(0, MAX_PAGE_SIZE, FALSE), {}, gw))

NextLarge == StartLargeCycle \/ SubmitPage

SpecLarge == InitLarge /\ [][NextLarge]_vars

\* ------------------------------------------------ the crank's arithmetic
\* The arithmetic of one page on machine words.  A u64 is scaled to
\* WordBits bits; a product of two words is taken in the double width
\* (u128), where it cannot overflow, so only the conversions back to a word
\* and the additions on words can lose anything.  -1 stands for
\* Err(MathOverflow).
WordBits   == 8
WordModulus == 2 ^ WordBits

\* u128 -> u64 by try_into
try_into_u64(x) == IF x < WordModulus THEN x ELSE -1

\* u128 -> u64 by `as u64`
as_u64(x) == x % WordModulus

checked_add(a, b) == IF a + b < WordModulus THEN a + b ELSE -1

\* a + b on words with the `+` operator: the sum when it fits; otherwise the
\* build decides between wrapping and a panic (-2) that aborts the
\* transaction.
PlainAdd(a, b) ==
    IF a + b < WordModulus THEN {a + b} ELSE {(a + b) % WordModulus, -2}

\* page_share (lines 348-352)
PageShare(carry_over_from_previous_pages, page_locked, total_locked_all_investors) ==
    as_u64((carry_over_from_previous_pages * page_locked) \div total_locked_all_investors)

\* investor_dust_share (lines 456-458)
InvestorDustShare(carry_over_distributed, locked_amount, page_locked) ==
    as_u64((carry_over_distributed * locked_amount) \div page_locked)

ArithmeticInputs ==
    [claimed_quote : {0, 100, 255}, y0_total_allocation : {1, 100},
     total_locked : {0, 1, 128, 255}, locked : {0, 1, 128, 255},
     carry_over : {0, 3, 255}, already_distributed : {0, 200},
     page_start : {0, 206, 255}, page_size : {MAX_PAGE_SIZE}]

NoArithmetic ==
    [result |-> "None", locked_sum |-> 0, eligible_share_bps |-> 0,
     total_investor_fee |-> 0, page_share |-> 0, individual_payout |-> 0,
     cap_total |-> 0, investor_dust_share |-> 0, cursor |-> 0]

InitArithmetic ==
    /\ call \in { [in |-> in, out |-> NoArithmetic, result |-> "None"] : in \in ArithmeticInputs }
    /\ policy \in {pol \in Policies : PolicyValid(pol)}
    /\ progress = InitialProgress
    /\ position_owner = [total_fees_claimed |-> 0]
    /\ treasury_ata = 0
    /\ base_treasury_ata = 0
    /\ now = StartTime
    /\ transfers = <<>>
    /\ payout_log = <<>>
    /\ cycle = NoCycle
    /\ lastAccepted = <<>>
    /\ claimCount = 0
    /\ streams \in InvestorStreams
    /\ pool_fees = 10000

\* The values a page computes from in, for one investor with in.locked
\* locked, with the cursor addition giving cursor.
ArithmeticOf(in, share_bps, cursor) ==
    [locked_sum |-> checked_add(in.total_locked, in.locked),
     eligible_share_bps |-> share_bps,
     total_investor_fee |->
        try_into_u64(calculate_investor_fee_amount(in.claimed_quote, share_bps)),
     page_share |->
        IF in.total_locked > 0
        THEN PageShare(in.carry_over, in.locked, in.total_locked)
        ELSE 0,
     individual_payout |->
        try_into_u64(calculate_individual_payout(
            calculate_investor_fee_amount(in.claimed_quote, share_bps),
            in.locked, in.total_locked)),
     cap_total |->
        checked_add(in.already_distributed,
            calculate_individual_payout(
                calculate_investor_fee_amount(in.claimed_quote, share_bps),
                in.locked, in.total_locked) % WordModulus),
     investor_dust_share |->
        IF in.total_locked > 0 /\ in.locked > 0
        THEN InvestorDustShare(PageShare(in.carry_over, in.locked, in.total_locked),
                               in.locked, in.locked)
        ELSE 0,
     cursor |-> cursor]

\* The first failure in the order of the code decides how the call ends.
ArithmeticResult(out) ==
    IF out.locked_sum = -1 \/ out.total_investor_fee = -1
       \/ out.individual_payout = -1 \/ out.cap_total = -1
    THEN "MathOverflow"
    ELSE IF out.cursor = -2 THEN "Panic"
    ELSE "Computed"

ArithmeticEnds(out) ==
    /\ call' = [call EXCEPT !.out = out, !.result = ArithmeticResult(out)]
    /\ UNCHANGED <<policy, progress, position_owner, treasury_ata, base_treasury_ata,
                   now, transfers, payout_log, cycle, lastAccepted, claimCount,
                   streams, pool_fees>>

CrankArithmetic ==
    /\ call.result = "None"
    /\ \E cursor \in PlainAdd(call.in.page_start, call.in.page_size) :
          ArithmeticEnds(
              ArithmeticOf(call.in,
                  calculate_eligible_investor_share(
                      [policy EXCEPT !.y0_total_allocation = call.in.y0_total_allocation],
                      call.in.total_locked),
                  cursor))

SpecArithmetic == InitArithmetic /\ [][CrankArithmetic]_vars

\* ------------------------------------------------ the oracle's reads vary
\* Three investors whose stream accounts read differently from one call to
\* the next: the locked amounts are read when a page is evaluated, and the
\* first page's total is kept for the cycle.  Callers follow the protocol.
OracleCycles == 3

OracleStreams ==
    { <<Stream(9), Stream(9), Stream(82)>>,
      <<Stream(9), Stream(9), Stream(41)>>,
      <<Stream(9), Stream(90), Stream(82)>>,
      <<Vested, Vested, Vested>> }

OraclePolicy ==
    [investor_fee_share_bps |-> BASIS_POINTS_DIVISOR, daily_cap_lamports |-> None,
     min_payout_lamports |-> MIN_PAYOUT_THRESHOLD, y0_total_allocation |-> 100,
     total_investors |-> 3]

InitOracle ==
    /\ policy \in {pol \in {OraclePolicy} : PolicyValid(pol)}
    /\ progress = InitialProgress
    /\ position_owner = [total_fees_claimed |-> 0]
    /\ treasury_ata = 0
    /\ base_treasury_ata = 0
    /\ now = StartTime
    /\ call = NoCall
    /\ transfers = <<>>
    /\ payout_log = <<>>
    /\ cycle = NoCycle
    /\ lastAccepted = <<>>
    /\ claimCount = 0
    /\ streams \in OracleStreams
    /\ pool_fees = 10000

\* The stream accounts read differently from now on.
OracleMoves ==
    /\ streams' \in OracleStreams \ {streams}
    /\ call' = NoCall
    /\ transfers' = <<>>
    /\ payout_log' = <<>>
    /\ UNCHANGED <<policy, progress, position_owner, treasury_ata, base_treasury_ata,
                   now, cycle, lastAccepted, claimCount, pool_fees>>

\* A day passes between two cycles.
DayPasses ==
    /\ progress.day_completed
    /\ now < StartTime + (OracleCycles - 1) * SECONDS_PER_DAY
    /\ now' = now + SECONDS_PER_DAY
    /\ call' = NoCall
    /\ transfers' = <<>>
    /\ payout_log' = <<>>
    /\ UNCHANGED <<policy, progress, position_owner, treasury_ata, base_treasury_ata,
                   cycle, lastAccepted, claimCount, streams, pool_fees>>

\* The first page of a cycle, with the accounts of all investors.
StartOracleCycle ==
    /\ progress.day_completed
    /\ progress.total_distributions < OracleCycles
    /\ \E page_size \in ResumeSizes :
          IF PageGuard(progress, 0, page_size, now) # "Proceed"
          THEN CrankReturns(0, page_size, PageGuard(progress, 0, page_size, now),
                            None, NothingUndone)
          ELSE CrankEnds(0, page_size,
                   ExecutePage(progress, policy, treasury_ata, base_treasury_ata, now,
                               0, page_size, streams, {},
                               [quote |-> pool_fees, base |-> 0]))

NextOracle == StartOracleCycle \/ SubmitPage \/ OracleMoves \/ DayPasses

SpecOracle == InitOracle /\ [][NextOracle]_vars

\* --------------------------------------------------------------- events.rs
QuoteFeesClaimed(amount) == [event |-> "QuoteFeesClaimed", amount |-> amount]

CreatorPayoutDayClosed(creator_amount, total_distributed) ==
    [event |-> "CreatorPayoutDayClosed", creator_amount |-> creator_amount,
     total_distributed |-> total_distributed]

InvestorPayoutPage(page_start, page_size, investors_paid, total_paid, dust_carried) ==
    [event |-> "InvestorPayoutPage", page_start |-> page_start, page_size |-> page_size,
     investors_paid |-> investors_paid, total_paid |-> total_paid,
     dust_carried |-> dust_carried]

\* The events of the latest transaction in the order of its emit! statements
\* (crank_distribution.rs:270, 549, 558); a transaction that failed or
\* returned early emitted none.  investors_paid is individual_locked.len(),
\* the number of iterations of the payout loop.
EmittedEvents ==
    IF call.result # "Accepted" THEN <<>>
    ELSE (IF call.claim # None THEN <<QuoteFeesClaimed(call.claim[1].quote)>> ELSE <<>>)
         \o (IF progress.day_completed
             THEN <<CreatorPayoutDayClosed(PaidTo("creator", transfers),
                                           progress.current_day_distributed)>>
             ELSE <<>>)
         \o <<InvestorPayoutPage(call.page_start, call.page_size, Len(payout_log),
                                 PaidTo("investor", transfers),
                                 progress.current_day_carry_over)>>

\* ------------------------------------------------------------- properties
IsCrankStep == call'.result # "None"

CycleOpen == ~progress.day_completed

\* C1. Conservation per cycle: once a cycle is closed, what was made
\* available to it (the fees claimed on its first page plus the
\* persistent_carry_over rolled in) equals the investor transfers of the
\* cycle plus the creator remainder plus the persistent_carry_over stored
\* at close.
C1_Conservation ==
    (progress.day_completed /\ progress.total_distributions > 0)
        => cycle.available =
              cycle.investor_paid + cycle.creator_paid + progress.persistent_carry_over

\* C2. No double payment: within one cycle no investor index receives more
\* than one transfer, a share of redistributed dust counting as a transfer.
C2_NoDoublePayment ==
    \A i \in InvestorIdx : cycle.received[i] <= 1

\* C3. Cap enforcement: with daily_cap_lamports = Some(cap), after every
\* accepted page current_day_distributed <= cap.
C3_CapEnforced ==
    policy.daily_cap_lamports # None
        => progress.current_day_distributed <= policy.daily_cap_lamports[1]

\* C4. Dust floor: every transfer the crank makes to an investor is of at
\* least min_payout_lamports.
C4_DustFloor ==
    \A k \in 1 .. Len(transfers) :
        transfers[k].kind = "investor"
            => transfers[k].amount >= policy.min_payout_lamports

\* C5. Idempotence: while a cycle is open, resubmitting the page accepted
\* immediately before (same page_start, same page_size) succeeds as a no-op:
\* no transfer, and progress, balances and statistics are unchanged.
C5_IdempotentRetry ==
    [][ ( /\ IsCrankStep
          /\ CycleOpen
          /\ lastAccepted # <<>>
          /\ call'.page_start = lastAccepted[1].page_start
          /\ call'.page_size = lastAccepted[1].page_size )
        => ( /\ call'.result = "NoOp"
             /\ transfers' = <<>>
             /\ UNCHANGED <<progress, treasury_ata, position_owner, cycle>> ) ]_vars

\* a resubmission of the preceding page has just returned
C5_Witness ==
    /\ CycleOpen
    /\ call.result = "NoOp"
    /\ lastAccepted # <<>>
    /\ call.page_start = lastAccepted[1].page_start
    /\ call.page_size = lastAccepted[1].page_size
    /\ progress.paid_investor_bitmap # {}

\* C6. Monotonic cursor: while the cycle stays open pagination_cursor never
\* decreases, and the only step that lowers it is the one that closes the
\* cycle, which sets it to 0.
C6_MonotonicCursor ==
    [][ /\ (CycleOpen /\ ~progress'.day_completed)
            => progress'.pagination_cursor >= progress.pagination_cursor
        /\ progress'.pagination_cursor < progress.pagination_cursor
            => ( /\ progress'.pagination_cursor = 0
                 /\ CycleOpen
                 /\ progress'.day_completed ) ]_vars

\* the cursor has advanced twice in an open cycle
C6_Witness ==
    /\ CycleOpen
    /\ call.result = "Accepted"
    /\ call.page_start > 0
    /\ progress.pagination_cursor > call.page_start

WindowReached == now >= progress.last_distribution_ts + SECONDS_PER_DAY

\* a call has claimed fees and applied start_new_day
StartsCycle == claimCount' # claimCount

\* C7 as stated. Entry guard: a cycle is started only by a call made when
\* day_completed is true and the 24-hour window has been reached; any call
\* made while day_completed is true and the window has not been reached is
\* rejected with CrankWindowNotReached; consecutive cycles start at least
\* 86400 seconds apart.
C7_EntryGuard_AnyCall ==
    [][ /\ StartsCycle => (progress.day_completed /\ WindowReached)
        /\ (IsCrankStep /\ progress.day_completed /\ ~WindowReached)
              => call'.result = "CrankWindowNotReached"
        /\ StartsCycle
              => progress'.last_distribution_ts
                    >= progress.last_distribution_ts + SECONDS_PER_DAY ]_vars

\* C7 amended. As above, the rejection with CrankWindowNotReached being
\* claimed for the calls whose page_size is in 1..MAX_PAGE_SIZE; a call
\* with another page_size is rejected with InvalidPagination.
C7_EntryGuard ==
    [][ /\ StartsCycle => (progress.day_completed /\ WindowReached)
        /\ (IsCrankStep /\ progress.day_completed /\ ~WindowReached)
              => call'.result =
                    (IF call'.page_size \in 1 .. MAX_PAGE_SIZE
                     THEN "CrankWindowNotReached" ELSE "InvalidPagination")
        /\ StartsCycle
              => progress'.last_distribution_ts
                    >= progress.last_distribution_ts + SECONDS_PER_DAY ]_vars

\* a call with page_start = 0 has been turned away between two cycles
C7_Witness ==
    /\ progress.day_completed
    /\ progress.total_distributions = 1
    /\ ~WindowReached
    /\ call.result = "CrankWindowNotReached"
    /\ call.page_start = 0

\* C8. Interior pages are never time-gated: in an open cycle a call with
\* page_start = pagination_cursor is never rejected with
\* CrankWindowNotReached, whatever the time, and neither claims fees nor
\* starts a cycle.
C8_InteriorNotGated ==
    [][ ( /\ IsCrankStep
          /\ CycleOpen
          /\ call'.page_start = progress.pagination_cursor )
        => ( /\ call'.result # "CrankWindowNotReached"
             /\ ~StartsCycle
             /\ position_owner' = position_owner
             /\ progress'.last_distribution_ts = progress.last_distribution_ts
             /\ progress'.current_day_total_claimed
                   = progress.current_day_total_claimed ) ]_vars

\* an interior page has been accepted a day or more after the cycle started
C8_Witness ==
    /\ call.result = "Accepted"
    /\ call.page_start > 0
    /\ WindowReached

\* C9. Fees are claimed exactly once per cycle: the number of claims equals
\* the number of cycles started; a call made while the cycle is open neither
\* claims fees nor applies the resets of start_new_day.
C9_ClaimedOncePerCycle ==
    /\ [](claimCount = progress.total_distributions + (IF CycleOpen THEN 1 ELSE 0))
    /\ [][ (IsCrankStep /\ CycleOpen)
           => ( /\ ~StartsCycle
                /\ position_owner' = position_owner
                /\ treasury_ata' <= treasury_ata
                /\ cycle'.available = cycle.available
                /\ progress'.last_distribution_ts = progress.last_distribution_ts
                /\ progress'.current_day_total_claimed
                      = progress.current_day_total_claimed
                /\ progress'.current_day_total_locked_all
                      = progress.current_day_total_locked_all
                /\ progress'.current_day_distributed
                      >= progress.current_day_distributed
                /\ ~progress'.day_completed
                      => ( /\ progress'.pagination_cursor >= progress.pagination_cursor
                           /\ progress.paid_investor_bitmap
                                 \subseteq progress'.paid_investor_bitmap ) ) ]_vars

\* a call with page_start = 0 has been made in an open cycle that has paid
C9_Witness ==
    /\ CycleOpen
    /\ claimCount = 2
    /\ call.result # "None"
    /\ call.page_start = 0
    /\ progress.pagination_cursor > 1
    /\ progress.paid_investor_bitmap # {}

\* C10. Sequencing guard: in an open cycle a call with a page_size in
\* 1..MAX_PAGE_SIZE whose page_start is neither pagination_cursor nor the
\* start of the page accepted immediately before is rejected with
\* InvalidPaginationSequence.
C10_SequencingGuard ==
    [][ ( /\ IsCrankStep
          /\ CycleOpen
          /\ call'.page_size \in 1 .. MAX_PAGE_SIZE
          /\ call'.page_start # progress.pagination_cursor
          /\ lastAccepted # <<>> => call'.page_start # lastAccepted[1].page_start )
        => call'.result = "InvalidPaginationSequence" ]_vars

\* the step closes the open (or just started) cycle
ClosesCycle == progress'.total_distributions = progress.total_distributions + 1

\* C11. A cycle is closed only by an accepted page for which
\* page_start + page_size >= policy.total_investors, whatever number of
\* investor accounts the caller attached.
C11_ClosedOnlyByLastPage ==
    [][ ClosesCycle
        => ( /\ call'.result = "Accepted"
             /\ call'.page_start + call'.page_size >= policy.total_investors ) ]_vars

\* the locked amounts of all the policy's investors, as the oracle reads them
LockedOfAllInvestors ==
    SumSeq([i \in 1 .. policy.total_investors |->
               read_locked_amount_from_stream(streams[i])])

\* C12. Once the first page of a cycle has been accepted,
\* current_day_total_locked_all is the sum of the locked amounts of all
\* policy.total_investors investors, not only of those the caller attached.
C12_TotalLockedOfAll ==
    claimCount > 0 => progress.current_day_total_locked_all = LockedOfAllInvestors

\* C13. Bitmap invariant: while a cycle is open, bit i of
\* paid_investor_bitmap is set if and only if investor i has received a
\* transfer in that cycle, a share of redistributed dust included.
C13_BitmapIffPaid ==
    CycleOpen
        => \A i \in InvestorIdx :
              is_investor_paid(progress, i) <=> cycle.received[i] > 0

CallFailed == call.result \notin {"None", "Accepted", "NoOp"}

C15_QuoteOnly ==
    [][ (IsCrankStep /\ call'.claim # None)
        => IF call'.claim[1].base # 0
           THEN /\ call'.result = "BaseFeesDetected"
                /\ transfers' = <<>>
                /\ progress.day_completed
                /\ UNCHANGED <<progress, position_owner, treasury_ata,
                               base_treasury_ata, cycle, claimCount>>
           ELSE /\ call'.result # "BaseFeesDetected"
                /\ call'.result = "Accepted"
                     => ( /\ StartsCycle
                          /\ position_owner'.total_fees_claimed
                                   - position_owner.total_fees_claimed
                                = (treasury_ata' + PaidTo("investor", transfers')
                                      + PaidTo("creator", transfers')) - treasury_ata
                          /\ base_treasury_ata' = base_treasury_ata ) ]_vars

\* a first-page call has failed on base fees between two cycles
C15_Witness ==
    /\ call.result = "BaseFeesDetected"
    /\ call.claim # None
    /\ call.claim[1].base # 0
    /\ progress.day_completed
    /\ progress.total_distributions > 0

CycleClosed == progress.day_completed /\ progress.total_distributions > 0

Locked(i) == read_locked_amount_from_stream(streams[i + 1])

\* floor(claimed * eligible_bps / 10000), the eligible share taken from the
\* locked amounts of all investors
ProRataPool ==
    calculate_investor_fee_amount(
        pool_fees, calculate_eligible_investor_share(policy, LockedOfAllInvestors))

\* floor(pool * locked_i / total_locked_all)
ProRataPayout(i) ==
    calculate_individual_payout(ProRataPool, Locked(i), LockedOfAllInvestors)

Investors == 0 .. (policy.total_investors - 1)

\* C16. Uncapped pro-rata result: in a closed cycle without daily cap in
\* which every raw payout is at least the threshold, investor i has
\* received floor(pool * locked_i / total_locked_all) and the creator the
\* claimed amount minus the sum of the investor payouts; with locked 60/40,
\* y0 = 200, 3000 bps and claimed 1000 the payouts are 180 and 120 and the
\* creator receives 700.
C16_ProRataResult ==
    (CycleClosed /\ policy.daily_cap_lamports = None)
        => /\ (\A i \in Investors : ProRataPayout(i) >= policy.min_payout_lamports)
                => /\ \A i \in Investors : cycle.amount[i] = ProRataPayout(i)
                   /\ cycle.creator_paid = pool_fees - cycle.investor_paid
           /\ (policy.total_investors = 2 /\ pool_fees = 1000)
                => /\ cycle.amount[0] = 180
                   /\ cycle.amount[1] = 120
                   /\ cycle.creator_paid = 700

\* the k-th transfer of the latest transaction went to the investor of the
\* m-th logged iteration and carried its allowed_payout
IsTransferOf(k, m) ==
    /\ k \in 1 .. Len(transfers)
    /\ transfers[k].kind = "investor"
    /\ transfers[k].index = payout_log[m].index
    /\ transfers[k].amount = payout_log[m].allowed_payout

\* investor transfers the payout loop had issued before iteration m
PayoutsBefore(m) ==
    Cardinality({j \in 1 .. (m - 1) : payout_log[j].allowed_payout > 0})

\* C17. Incremental cap clamping: with a daily cap, for each investor of a
\* page whose raw payout is at least the threshold the amount transferred
\* is min(raw_payout, cap - current_day_distributed), current_day_distributed
\* including the payouts made to the earlier investors of the page;
\* raw_payout minus that amount is added to the page dust, and
\* current_day_distributed has grown by exactly that amount when the next
\* investor is processed.
C17_IncrementalCap ==
    policy.daily_cap_lamports # None
        => \A m \in 1 .. Len(payout_log) :
              LET e == payout_log[m]
                  transferred ==
                      Min(e.raw_payout,
                          policy.daily_cap_lamports[1] - e.distributed_before)
              IN  e.raw_payout >= policy.min_payout_lamports
                     => /\ e.allowed_payout = transferred
                        /\ transferred > 0 => IsTransferOf(PayoutsBefore(m) + 1, m)
                        /\ e.dust_after = e.dust_before + (e.raw_payout - transferred)
                        /\ e.distributed_after = e.distributed_before + transferred
                        /\ m < Len(payout_log)
                              => payout_log[m + 1].distributed_before
                                    = e.distributed_after

\* amounts around the thresholds a policy can carry
ThresholdSamples ==
    {0, 1, MIN_PAYOUT_THRESHOLD - 1, MIN_PAYOUT_THRESHOLD, MIN_PAYOUT_THRESHOLD + 1,
     2 * MIN_PAYOUT_THRESHOLD}

\* C18. Threshold rule: apply_dust_threshold(a, t) is (a, 0) when a >= t and
\* (0, a) when a < t; an investor of a page whose raw payout is below
\* min_payout_lamports receives no transfer in that call, its bitmap bit is
\* not set by the call, and its full raw payout is added to the page dust.
C18_ThresholdRule ==
    /\ \A a \in ThresholdSamples, th \in ThresholdSamples :
          /\ apply_dust_threshold(a, th) = IF a >= th THEN <<a, 0>> ELSE <<0, a>>
          /\ apply_dust_threshold(a, th)[1] + apply_dust_threshold(a, th)[2] = a
    /\ \A m \in 1 .. Len(payout_log) :
          LET e == payout_log[m]
          IN  e.raw_payout < policy.min_payout_lamports
                 => /\ \A k \in 1 .. Len(transfers) :
                          transfers[k].kind = "investor"
                             => transfers[k].index # e.index
                    /\ ~is_investor_paid(progress, e.index)
                    /\ e.dust_after = e.dust_before + e.raw_payout
                    /\ e.distributed_after = e.distributed_before

SetupResults == {"SetupOk", "InvalidPoolConfiguration", "AccountAlreadyInUse"}

\* C19. Setup: setup_policy creates Policy and Progress only if
\* investor_fee_share_bps <= 10000, y0_total_allocation > 0,
\* min_payout_lamports >= 1000 and total_investors > 0, and otherwise
\* creates nothing; the Progress created has day_completed = true, cursor 0,
\* all counters 0 and an empty bitmap, and the first crank with
\* page_start = 0 is not turned away by the window or sequencing guards and,
\* when accepted, is the first page of the first cycle.
C19_Setup ==
    [][ /\ (policy' # policy \/ (progress = NoAccount /\ progress' # NoAccount))
           => /\ policy = NoAccount
              /\ progress = NoAccount
              /\ call'.result = "SetupOk"
              /\ policy'.investor_fee_share_bps <= 10000
              /\ policy'.y0_total_allocation > 0
              /\ policy'.min_payout_lamports >= 1000
              /\ policy'.total_investors > 0
              /\ progress'.day_completed
              /\ progress'.pagination_cursor = 0
              /\ progress'.last_distribution_ts = 0
              /\ progress'.current_day_distributed = 0
              /\ progress'.current_day_carry_over = 0
              /\ progress'.current_day_total_claimed = 0
              /\ progress'.current_day_total_locked_all = 0
              /\ progress'.persistent_carry_over = 0
              /\ progress'.total_distributions = 0
              /\ progress'.total_investor_distributed = 0
              /\ progress'.total_creator_distributed = 0
              /\ progress'.paid_investor_bitmap = {}
        /\ (call'.result \in SetupResults /\ call'.result # "SetupOk")
           => UNCHANGED <<policy, progress>>
        /\ ( /\ progress = InitialProgress
             /\ call'.result \notin (SetupResults \cup {"None"})
             /\ call'.page_start = 0
             /\ call'.page_size \in 1 .. MAX_PAGE_SIZE )
           => /\ call'.result \notin
                    {"CrankWindowNotReached", "InvalidPaginationSequence",
                     "InvalidPagination", "NoOp"}
              /\ call'.result = "Accepted"
                    => ( /\ claimCount = 0
                         /\ claimCount' = 1
                         /\ progress'.last_distribution_ts = now
                         /\ progress'.total_distributions
                               = (IF progress'.day_completed THEN 1 ELSE 0) ) ]_vars

\* after a setup, the first crank with page_start = 0 has been accepted and
\* the first cycle is open
C19_Witness ==
    /\ policy # NoAccount
    /\ progress # NoAccount
    /\ call.result = "Accepted"
    /\ call.page_start = 0
    /\ claimCount = 1
    /\ ~progress.day_completed
    /\ progress.total_distributions = 0
    /\ progress.paid_investor_bitmap # {}

\* C20. Concurrent submissions: of two calls submitted for the same cursor
\* position and executed one directly after the other, once one has been
\* accepted (advancing the cursor and paying the page) the other, whatever
\* its page_size and accounts, is a no-op or is rejected, changes no
\* Progress field and no balance, and pays no investor.
C20_OneSubmissionWins ==
    [][ ( /\ call.result = "Accepted"
          /\ IsCrankStep
          /\ call'.page_start = call.page_start )
        => ( /\ call'.result # "Accepted"
             /\ transfers' = <<>>
             /\ UNCHANGED <<progress, treasury_ata, position_owner, cycle,
                            claimCount>> ) ]_vars

\* the loser of two submissions for the position of the page accepted
\* before, made with another page_size, has been rejected
C20_Witness ==
    /\ CycleOpen
    /\ lastAccepted # <<>>
    /\ call.page_start = lastAccepted[1].page_start
    /\ call.page_size # lastAccepted[1].page_size
    /\ call.page_size \in 1 .. MAX_PAGE_SIZE
    /\ call.result = "InvalidPaginationSequence"
    /\ progress.pagination_cursor = lastAccepted[1].page_start + lastAccepted[1].page_size

\* the page at the cursor, submitted with the accounts of its investors, is
\* let through by the guards and accepted
ResumableWith(page_size) ==
    /\ PageGuard(progress, progress.pagination_cursor, page_size, now) = "Proceed"
    /\ PageAtCursor(page_size).result = "Accepted"

\* C21. Resumable progress: in no reachable state of an open cycle is every
\* page that starts at pagination_cursor and carries the investors of that
\* page rejected, and when callers keep submitting that page the cycle
\* eventually reaches day_completed = true.
C21_ResumableProgress ==
    /\ [](CycleOpen => \E page_size \in ResumeSizes : ResumableWith(page_size))
    /\ (CycleOpen ~> progress.day_completed)

\* the investors the latest transaction transferred to
PaidIndices == {transfers[k].index : k \in {j \in 1 .. Len(transfers) : transfers[j].kind = "investor"}}

\* C22. First-page state: when the first page of a cycle is accepted with
\* claimed fees c at time t, the Progress its payouts are applied to has
\* current_day_total_claimed = c + the persistent_carry_over before the call,
\* persistent_carry_over = 0, current_day_distributed = 0,
\* current_day_carry_over = 0, an all-zero bitmap, day_completed = false and
\* last_distribution_ts = t; the Progress the call leaves is that one with
\* the page's payouts applied.
C22_FirstPageState ==
    [][ StartsCycle
        => LET c == call'.claim[1].quote
               s == start_new_day(progress, now, c, progress'.current_day_total_locked_all)
           IN  /\ call'.result = "Accepted"
               /\ s.current_day_total_claimed = c + progress.persistent_carry_over
               /\ s.persistent_carry_over = 0
               /\ s.current_day_distributed = 0
               /\ s.current_day_carry_over = 0
               /\ s.paid_investor_bitmap = {}
               /\ ~s.day_completed
               /\ s.last_distribution_ts = now
               /\ s.pagination_cursor = 0
               /\ progress'.current_day_total_claimed = s.current_day_total_claimed
               /\ progress'.last_distribution_ts = s.last_distribution_ts
               /\ progress'.current_day_distributed
                     = s.current_day_distributed + PaidTo("investor", transfers')
               /\ progress'.total_investor_distributed
                     = s.total_investor_distributed + PaidTo("investor", transfers')
               /\ ~progress'.day_completed
                     => /\ progress'.paid_investor_bitmap \subseteq PaidIndices'
                        /\ progress'.persistent_carry_over = s.persistent_carry_over
                        /\ progress'.total_distributions = s.total_distributions ]_vars

\* the first page of a second cycle has been accepted with dust of the first
\* cycle rolled in, and has paid an investor
C22_Witness ==
    /\ CycleOpen
    /\ claimCount = 2
    /\ call.result = "Accepted"
    /\ call.claim # None
    /\ progress.current_day_total_claimed > call.claim[1].quote
    /\ progress.last_distribution_ts = now
    /\ progress.paid_investor_bitmap # {}

\* floor(current_day_total_claimed * eligible_bps / 10000)
PoolOfCycle ==
    calculate_investor_fee_amount(
        progress.current_day_total_claimed,
        calculate_eligible_investor_share(policy, progress.current_day_total_locked_all))

\* C23. The investor pool is the same on every page of a cycle: on the first
\* page as on later pages the raw payouts are computed from
\* floor(current_day_total_claimed * eligible_bps / 10000), and the creator
\* remainder from current_day_total_claimed, the dust rolled in from the
\* previous cycle included.
C23_SamePoolOnEveryPage ==
    call.result = "Accepted"
        => /\ \A m \in 1 .. Len(payout_log) :
                 payout_log[m].raw_payout =
                     calculate_individual_payout(
                         PoolOfCycle, Locked(payout_log[m].index),
                         progress.current_day_total_locked_all)
           /\ progress.day_completed
                 => PaidTo("creator", transfers) =
                        calculate_creator_remainder(
                            progress.current_day_total_claimed,
                            progress.current_day_distributed,
                            progress.current_day_carry_over)

\* min(max_share_bps, min(10000, floor(locked_total * 10000 / y0))), 0 for y0 = 0
EligibleShareOf(locked_total, y0, max_share_bps) ==
    IF y0 = 0 THEN 0
    ELSE Min(max_share_bps, Min(10000, (locked_total * 10000) \div y0))

\* C24. Eligible share: for all locked_total, y0 and max share the eligible
\* share is min(max_share_bps, min(10000, floor(locked_total * 10000 / y0)))
\* and 0 when y0 = 0; 50% locked with max 3000 gives 3000 and 20% locked
\* with max 3000 gives 2000; the result is never above 10000 nor above the
\* configured share.
C24_EligibleShare ==
    call.result = "EligibleShare"
        => /\ call.share_bps =
                 EligibleShareOf(call.locked_total, call.y0_total_allocation,
                                 call.max_investor_share_bps)
           /\ call.policy_share = call.share_bps
           /\ call.share_bps <= 10000
           /\ call.share_bps <= call.max_investor_share_bps
           /\ call.y0_total_allocation = 0 => call.share_bps = 0
           /\ ( /\ call.locked_total = 5000
                /\ call.y0_total_allocation = 10000
                /\ call.max_investor_share_bps = 3000 ) => call.share_bps = 3000
           /\ ( /\ call.locked_total = 2000
                /\ call.y0_total_allocation = 10000
                /\ call.max_investor_share_bps = 3000 ) => call.share_bps = 2000

\* the share has been computed for more locked than allocated, under a
\* maximum above 100%
C24_Witness ==
    /\ call.result = "EligibleShare"
    /\ call.locked_total > call.y0_total_allocation
    /\ call.y0_total_allocation > 0
    /\ call.max_investor_share_bps > BASIS_POINTS_DIVISOR
    /\ call.share_bps = BASIS_POINTS_DIVISOR

\* what the transfers of xfers bring investor i
AmountTo(i, xfers) ==
    SumSeq([k \in 1 .. Len(xfers) |->
               IF xfers[k].kind = "investor" /\ xfers[k].index = i
               THEN xfers[k].amount ELSE 0])

\* the locked amounts of the investors the iterations of log went through
LockedOfPage(log) == SumSeq([m \in 1 .. Len(log) |-> Locked(log[m].index)])

\* C25. Dust carry-in: when current_day_carry_over >= min_payout_lamports at
\* the start of an accepted page, investor i of the page is allotted, on top
\* of its payout, floor(carry_over * locked_i / page_locked_sum), where
\* page_locked_sum is the sum of the locked amounts of this page only; when
\* the carried amount is below the threshold no share is transferred and the
\* carried amount is carried on, with the dust of the page added.
C25_DustCarryIn ==
    [][ (IsCrankStep /\ call'.result = "Accepted")
        => LET carry_over == IF StartsCycle THEN 0 ELSE progress.current_day_carry_over
               log == payout_log'
               new_dust == IF log = <<>> THEN 0 ELSE log[Len(log)].dust_after
           IN  \A m \in 1 .. Len(log) :
                  LET i == log[m].index
                      share == AmountTo(i, transfers') - log[m].allowed_payout
                  IN  IF carry_over >= policy.min_payout_lamports
                      THEN share = IF LockedOfPage(log) = 0 THEN 0
                                   ELSE (carry_over * Locked(i)) \div LockedOfPage(log)
                      ELSE /\ share = 0
                           /\ progress'.current_day_carry_over = carry_over + new_dust ]_vars

\* the sum of the raw payouts the iterations of log computed
RawPayouts(log) == SumSeq([m \in 1 .. Len(log) |-> log[m].raw_payout])

\* C26. Page-level accounting: for every accepted page the carry-over at
\* entry plus the raw payouts computed for the page's investors equals the
\* amounts transferred to investors on the page plus the carry-over at exit;
\* the rounding remainder of a dust redistribution is part of the outgoing
\* carry-over.
C26_PageAccounting ==
    [][ (IsCrankStep /\ call'.result = "Accepted")
        => (IF StartsCycle THEN 0 ELSE progress.current_day_carry_over)
              + RawPayouts(payout_log')
           = PaidTo("investor", transfers') + progress'.current_day_carry_over ]_vars

\* the investor indices the iterations of log went through
Processed(log) == {log[m].index : m \in 1 .. Len(log)}

\* C27. Cursor and page extent agree: an accepted call processes at most
\* page_size investors, all of them within page_start ..
\* page_start + page_size - 1, a page after the first starting at the cursor
\* the page before left; after an accepted page that does not close the
\* cycle pagination_cursor = page_start + page_size and the indices
\* processed are exactly page_start .. pagination_cursor - 1, so that no
\* index is processed by two accepted pages of a cycle.
C27_CursorAndExtent ==
    [][ (IsCrankStep /\ call'.result = "Accepted")
        => /\ Len(payout_log') <= call'.page_size
           /\ Processed(payout_log')
                 \subseteq call'.page_start .. (call'.page_start + call'.page_size - 1)
           /\ ~StartsCycle => call'.page_start = progress.pagination_cursor
           /\ ~progress'.day_completed
                 => /\ progress'.pagination_cursor = call'.page_start + call'.page_size
                    /\ Processed(payout_log')
                          = call'.page_start .. (progress'.pagination_cursor - 1) ]_vars

\* max(0, current_day_total_claimed - current_day_distributed -
\* current_day_carry_over) of the Progress p
RemainderOf(p) ==
    IF p.current_day_total_claimed - p.current_day_distributed
          - p.current_day_carry_over > 0
    THEN p.current_day_total_claimed - p.current_day_distributed
            - p.current_day_carry_over
    ELSE 0

\* C28. Closing effects: the page that closes a cycle transfers to the
\* creator exactly max(0, current_day_total_claimed - current_day_distributed
\* - current_day_carry_over), taken after the page's payouts, sets
\* persistent_carry_over = current_day_carry_over and day_completed = true,
\* increments total_distributions by 1, adds the remainder to
\* total_creator_distributed and clears the bitmap.
C28_ClosingEffects ==
    [][ ClosesCycle
        => /\ call'.result = "Accepted"
           /\ PaidTo("creator", transfers') = RemainderOf(progress')
           /\ progress'.persistent_carry_over = progress'.current_day_carry_over
           /\ progress'.day_completed
           /\ progress'.total_distributions = progress.total_distributions + 1
           /\ progress'.total_creator_distributed
                 = progress.total_creator_distributed + RemainderOf(progress')
           /\ progress'.paid_investor_bitmap = {} ]_vars

\* The outcome of a call made in the open cycle with the accounts of n
\* investors from page_start on.
PageOutcome(page_start, page_size, n, fault) ==
    ExecutePage(progress, policy, treasury_ata, base_treasury_ata, now,
                page_start, page_size,
                RemainingAccounts(page_start, n, fault = "stream"),
                IF fault = "ata" THEN {page_start} ELSE {},
                [quote |-> 0, base |-> 0])

\* an investor of the page submitted with n accounts is marked paid
HasMarked(page_start, n) ==
    \E i \in page_start .. (page_start + Len(RemainingAccounts(page_start, n, FALSE)) - 1) :
        is_investor_paid(progress, i)

\* a call that fails with InvestorAlreadyPaid pays nobody and leaves the
\* cursor, the bitmap and the balances as they were
AlreadyPaidChangesNothing ==
    [][ (IsCrankStep /\ call'.result = "InvestorAlreadyPaid")
        => ( /\ transfers' = <<>>
             /\ UNCHANGED <<progress, treasury_ata, position_owner, cycle>> ) ]_vars

C30_BitmapCapacity ==
    [][ (IsCrankStep /\ call'.result = "Accepted")
        => \A index \in Processed(payout_log') : index < BitmapBits ]_vars

\* The account deserializes as a Streamflow contract
WellFormed(stream_account) == stream_account.sdk # -1

\* C31. Locked-balance oracle: read_locked_amount_from_stream returns an
\* amount only for a well-formed vesting record; a malformed stream account
\* gives InsufficientStreamflowData, never a substituted value, so every
\* investor an accepted call processed has a well-formed stream account, and
\* a call that ends with that error leaves Progress unchanged.
C31_LockedOracle ==
    [][ IsCrankStep
        => /\ call'.result = "Accepted"
                => \A index \in Processed(payout_log') : WellFormed(streams[index + 1])
           /\ call'.result = "InsufficientStreamflowData" => progress' = progress ]_vars

\* the exact quotient, rounded down
ExactFloor(n, d) == n \div d

\* C32. Numeric semantics: a call that does not fail with MathOverflow
\* computed every ratio (eligible share, investor pool, individual payout,
\* page share, share of carried dust) as the exact floor of the quotient,
\* none reduced modulo the word size, and its sums for total locked, cap
\* check and cursor are the exact sums.
C32_NumericSemantics ==
    call.result \in {"Computed", "Panic"}
        => /\ call.out.total_investor_fee =
                 ExactFloor(call.in.claimed_quote * call.out.eligible_share_bps,
                            BASIS_POINTS_DIVISOR)
           /\ call.in.total_locked > 0
                 => /\ call.out.individual_payout =
                          ExactFloor(call.out.total_investor_fee * call.in.locked,
                                     call.in.total_locked)
                    /\ call.out.page_share =
                          ExactFloor(call.in.carry_over * call.in.locked,
                                     call.in.total_locked)
                    /\ call.in.locked > 0
                          => call.out.investor_dust_share =
                                ExactFloor(call.out.page_share * call.in.locked,
                                           call.in.locked)
           /\ call.out.locked_sum = call.in.total_locked + call.in.locked
           /\ call.out.cap_total = call.in.already_distributed + call.out.individual_payout
           /\ call.result = "Computed"
                 => call.out.cursor = call.in.page_start + call.in.page_size

\* the positions of the events of a kind in a transaction's events
EventsOfKind(events, kind) == {m \in 1 .. Len(events) : events[m].event = kind}

\* the investors that received a transfer in the latest transaction
InvestorsPaid(xfers) == {xfers[m].index : m \in {k \in 1 .. Len(xfers) : xfers[k].kind = "investor"}}

\* C33. Event order per cycle: QuoteFeesClaimed is emitted exactly by the
\* call that starts a cycle and before its InvestorPayoutPage; every
\* accepted page emits exactly one InvestorPayoutPage, a no-op retry or a
\* rejected call none; CreatorPayoutDayClosed is emitted exactly by the call
\* that closes the cycle, after the InvestorPayoutPage of that page; and
\* investors_paid is the number of investors that received a transfer on
\* the page.
C33_EventOrder ==
    [][ IsCrankStep
        => /\ call'.result # "Accepted" => EmittedEvents' = <<>>
           /\ call'.result = "Accepted"
                => /\ Cardinality(EventsOfKind(EmittedEvents', "InvestorPayoutPage")) = 1
                   /\ Cardinality(EventsOfKind(EmittedEvents', "QuoteFeesClaimed"))
                         = (IF StartsCycle THEN 1 ELSE 0)
                   /\ Cardinality(EventsOfKind(EmittedEvents', "CreatorPayoutDayClosed"))
                         = (IF progress'.day_completed THEN 1 ELSE 0)
                   /\ \A f \in EventsOfKind(EmittedEvents', "QuoteFeesClaimed"),
                         g \in EventsOfKind(EmittedEvents', "InvestorPayoutPage") : f < g
                   /\ \A g \in EventsOfKind(EmittedEvents', "InvestorPayoutPage") :
                         /\ \A c \in EventsOfKind(EmittedEvents', "CreatorPayoutDayClosed") : g < c
                         /\ EmittedEvents'[g].investors_paid
                               = Cardinality(InvestorsPaid(transfers')) ]_vars

\* C34. Solvency under varying oracle reads: what has been transferred out
\* of the treasury during the current cycle, to investors and to the
\* creator, is at most current_day_total_claimed, whatever the stream
\* accounts read when a page is evaluated.
C34_Solvency ==
    cycle.investor_paid + cycle.creator_paid <= progress.current_day_total_claimed

\* C35. Treasury accounting across cycles: whenever no cycle is open, the
\* fees claimed so far equal what was transferred to investors, plus what
\* was transferred to the creator, plus persistent_carry_over, and the quote
\* treasury holds exactly persistent_carry_over.
C35_TreasuryAccounting ==
    progress.day_completed
        => /\ position_owner.total_fees_claimed =
                 progress.total_investor_distributed + progress.total_creator_distributed
                   + progress.persistent_carry_over
           /\ treasury_ata = progress.persistent_carry_over

\* C36. Cycle-phase invariant: while no cycle is open pagination_cursor = 0
\* and the paid bitmap is all zeros; while a cycle is open
\* 0 < pagination_cursor < policy.total_investors and
\* persistent_carry_over = 0.
C36_CyclePhase ==
    /\ progress.day_completed
          => /\ progress.pagination_cursor = 0
             /\ progress.paid_investor_bitmap = {}
    /\ ~progress.day_completed
          => /\ 0 < progress.pagination_cursor
             /\ progress.pagination_cursor < policy.total_investors
             /\ progress.persistent_carry_over = 0

\* a second cycle, started with dust of the first rolled in, is open after a
\* page that paid an investor
C36_Witness ==
    /\ ~progress.day_completed
    /\ progress.total_distributions = 1
    /\ cycle.available > pool_fees
    /\ progress.pagination_cursor = 2
    /\ progress.paid_investor_bitmap # {}

\* C37. Frame of interior pages: an accepted page that is not the first page
\* of a cycle leaves last_distribution_ts, current_day_total_claimed,
\* current_day_total_locked_all and position_owner.total_fees_claimed
\* unchanged, and no crank call modifies the Policy record.
C37_InteriorFrame ==
    [][ IsCrankStep
        => /\ policy' = policy
           /\ (call'.result = "Accepted" /\ ~StartsCycle)
                 => /\ progress'.last_distribution_ts = progress.last_distribution_ts
                    /\ progress'.current_day_total_claimed = progress.current_day_total_claimed
                    /\ progress'.current_day_total_locked_all
                          = progress.current_day_total_locked_all
                    /\ position_owner' = position_owner ]_vars

\* an interior page has been accepted, paid an investor and closed the cycle
C37_Witness ==
    /\ call.result = "Accepted"
    /\ call.claim = None
    /\ call.page_start > 0
    /\ \E m \in 1 .. Len(transfers) : transfers[m].kind = "investor"
    /\ progress.day_completed
    /\ progress.current_day_total_claimed > 0

\* C38. Lifetime counters: every step adds to total_investor_distributed
\* the amounts it transferred to investors, to total_creator_distributed
\* the remainder it transferred to the creator, and 1 to total_distributions
\* exactly when it closed a cycle, so that the three counters are the
\* number of cycles closed and the sums of everything ever transferred (the
\* treasury holding the fees claimed less both sums) and never decrease.
C38_LifetimeCounters ==
    /\ [](treasury_ata = position_owner.total_fees_claimed
                           - progress.total_investor_distributed
                           - progress.total_creator_distributed)
    /\ [][ /\ progress'.total_investor_distributed
                 = progress.total_investor_distributed + PaidTo("investor", transfers')
           /\ progress'.total_creator_distributed
                 = progress.total_creator_distributed + PaidTo("creator", transfers')
           /\ progress'.total_distributions
                 = progress.total_distributions
                     + (IF call'.result = "Accepted" /\ progress'.day_completed
                        THEN 1 ELSE 0) ]_vars

\* two cycles have been closed, with transfers to investors and to the creator
C38_Witness ==
    /\ progress.total_distributions = 2
    /\ progress.total_investor_distributed > 0
    /\ progress.total_creator_distributed > 0
    /\ PaidTo("creator", transfers) > 0

\* C39. Fully unlocked case: in a cycle whose first page aggregated a total
\* locked amount of 0 no investor receives a transfer and no dust is
\* generated, and once the cycle is closed the creator has received the
\* entire current_day_total_claimed.
C39_FullyUnlocked ==
    (progress.total_distributions + (IF progress.day_completed THEN 0 ELSE 1) > 0
       /\ progress.current_day_total_locked_all = 0)
        => /\ cycle.investor_paid = 0
           /\ progress.current_day_carry_over = 0
           /\ progress.day_completed
                 => /\ progress.persistent_carry_over = 0
                    /\ cycle.creator_paid = progress.current_day_total_claimed

\* C40. The two implementations of the eligible share agree: for every
\* locked_total, y0_total_allocation and investor_fee_share_bps the method
\* of Policy that the crank uses returns the value of
\* calculate_eligible_investor_share_bps, and both return a share (a u16,
\* at most the configured one) for every input, the zero allocation and
\* locked totals far above the allocation included.
C40_SharesAgree ==
    call.result = "EligibleShare"
        => /\ call.policy_share = call.share_bps
           /\ call.policy_share \in 0 .. call.max_investor_share_bps
           /\ call.share_bps \in 0 .. 65535

\* both have been applied to a locked fraction that does not fit in a u16
C40_Witness ==
    /\ call.result = "EligibleShare"
    /\ call.y0_total_allocation > 0
    /\ (call.locked_total * BASIS_POINTS_DIVISOR) \div call.y0_total_allocation > 65535
    /\ call.policy_share > 0

=============================================================================
